---- MODULE Spec2Model ----
(***************************************************************************)
(* Model of the link-preview MCP server: the bounded fetch                 *)
(* (fetchWithTimeout), the favicon probe (getFavicon), the preview         *)
(* extraction (fetchLinkPreview), the search extraction (searchWeb) and    *)
(* the CallTool request handler with its three tool branches.              *)
(*                                                                         *)
(* Strings are sequences of tokens.  Page text is a sequence of one-       *)
(* character tokens; URLs, attribute names and messages use longer tokens. *)
(***************************************************************************)
EXTENDS Integers, Sequences, FiniteSets, TLC

VARIABLES build, inv, stage, idx, input, output

vars == <<build, inv, stage, idx, input, output>>

-----------------------------------------------------------------------------
(* Bounds of the model *)

NumInv == 2
MaxTags == 2
MaxText == 2
MaxElems == 2
MaxBlocks == 12
MaxArg == 2

(* Program constants *)

PageTimeoutMs == 15000
FaviconTimeoutMs == 3000
SearchTimeoutMs == 10000
DefaultMaxLength == 5000
DefaultNumResults == 10
SearchCap == 10

-----------------------------------------------------------------------------
(* JavaScript values *)

Undefined == <<"<undefined>">>
Null == <<"<null>">>

Falsy(s) == s \in {Undefined, Null, <<>>}

JsString(v) ==
  IF v = Undefined THEN <<"undefined">>
  ELSE IF v = Null THEN <<"null">>
  ELSE v

OrUndefined(s) == IF Falsy(s) THEN Undefined ELSE s

NaN == [nan |-> TRUE, n |-> 0]
ArgUndefined == [t |-> "undefined", n |-> 0]
ArgNumber(k) == [t |-> "number", n |-> k]

Number(a) == IF a.t = "undefined" THEN NaN ELSE [nan |-> FALSE, n |-> a.n]

OrDefault(x, d) == IF x.nan \/ x.n = 0 THEN d ELSE x.n

Min(a, b) == IF a < b THEN a ELSE b
Max(a, b) == IF a < b THEN b ELSE a

SliceTo(s, end) ==
  LET len == Len(s)
      e == IF end < 0 THEN Max(len + end, 0) ELSE Min(end, len)
  IN SubSeq(s, 1, e)

Whitespace == {" ", "\n"}

RECURSIVE TrimStart(_)
TrimStart(s) ==
  IF s # <<>> /\ Head(s) \in Whitespace THEN TrimStart(Tail(s)) ELSE s

RECURSIVE TrimEnd(_)
TrimEnd(s) ==
  IF s # <<>> /\ s[Len(s)] \in Whitespace
  THEN TrimEnd(SubSeq(s, 1, Len(s) - 1))
  ELSE s

Trim(s) == TrimEnd(TrimStart(s))

RECURSIVE CollapseWhitespace(_)
CollapseWhitespace(s) ==
  IF s = <<>> THEN <<>>
  ELSE IF Head(s) \in Whitespace
       THEN <<" ">> \o CollapseWhitespace(TrimStart(s))
       ELSE <<Head(s)>> \o CollapseWhitespace(Tail(s))

StartsWith(s, tok) == Len(s) >= 1 /\ s[1] = tok

JsonObject(p) == [k \in {f \in DOMAIN p : p[f] # Undefined} |-> p[k]]

-----------------------------------------------------------------------------
(* URLs and the network capability *)

HttpOrigins == {"http://a", "https://b"}
UrlOrigins == HttpOrigins \cup {"ftp://c"}

CanParseUrl(u) == Len(u) >= 1 /\ u[1] \in UrlOrigins
UrlOrigin(u) == <<u[1]>>
IsAbsoluteUrl(u) == Len(u) >= 1 /\ u[1] \in HttpOrigins

AbortError == <<"The user aborted a request.">>
NetworkError == <<"request failed">>
InvalidUrlError == <<"Only absolute URLs are supported">>
BodyError == <<"Premature close">>
UrlRequired == <<"URL is required">>
UnknownTool(name) == <<"Unknown tool: ", name>>

Builds == {"part_000", "server.ts"}

-----------------------------------------------------------------------------
(* Parsed documents: head elements, body elements, search result blocks *)

Meta(property, name, content) ==
  [el |-> "meta", property |-> property, name |-> name,
   content |-> content, text |-> <<>>]

MetaOg(p, content) == Meta(<<"og:", p>>, Undefined, content)
MetaTwitter(n, content) == Meta(Undefined, <<"twitter:", n>>, content)
MetaDescription(content) == Meta(Undefined, <<"description">>, content)

TitleElement(text) ==
  [el |-> "title", property |-> Undefined, name |-> Undefined,
   content |-> Undefined, text |-> text]

Document(lang, head, body, blocks) ==
  [lang |-> lang, head |-> head, body |-> body, blocks |-> blocks]

EmptyDocument == Document(Undefined, <<>>, <<>>, <<>>)

IsOgMeta(e) == e.el = "meta" /\ StartsWith(e.property, "og:")
IsTwitterMeta(e) == e.el = "meta" /\ StartsWith(e.name, "twitter:")
IsDescriptionMeta(e) == e.el = "meta" /\ e.name = <<"description">>
IsTitle(e) == e.el = "title"

RECURSIVE ConcatText(_)
ConcatText(s) ==
  IF s = <<>> THEN <<>> ELSE Head(s).text \o ConcatText(Tail(s))

-----------------------------------------------------------------------------
(* fetchLinkPreview: the extraction of the preview record *)

newPreview(url, resp, doc) ==
  [url |-> url,
   contentType |-> OrUndefined(resp.ctype),
   language |-> OrUndefined(doc.lang),
   title |-> Undefined, description |-> Undefined, image |-> Undefined,
   siteName |-> Undefined, type |-> Undefined, urlCanonical |-> Undefined,
   twitterCard |-> Undefined, favicon |-> Undefined]

ogEach(p, e) ==
  IF Falsy(e.property) \/ Falsy(e.content) THEN p
  ELSE CASE e.property = <<"og:", "title">> -> [p EXCEPT !.title = e.content]
         [] e.property = <<"og:", "description">> ->
              [p EXCEPT !.description = e.content]
         [] e.property = <<"og:", "image">> -> [p EXCEPT !.image = e.content]
         [] e.property = <<"og:", "site_name">> ->
              [p EXCEPT !.siteName = e.content]
         [] e.property = <<"og:", "type">> -> [p EXCEPT !.type = e.content]
         [] e.property = <<"og:", "url">> ->
              [p EXCEPT !.urlCanonical = e.content]
         [] OTHER -> p

RECURSIVE ogScan(_, _)
ogScan(p, s) ==
  IF s = <<>> THEN p ELSE ogScan(ogEach(p, Head(s)), Tail(s))

twitterEachOverwrite(p, e) ==
  IF Falsy(e.name) \/ Falsy(e.content) THEN p
  ELSE IF e.name = <<"twitter:", "card">>
       THEN [p EXCEPT !.twitterCard = e.content]
  ELSE IF e.name = <<"twitter:", "title">>
       THEN [p EXCEPT !.title = e.content]
  ELSE IF e.name = <<"twitter:", "description">>
       THEN [p EXCEPT !.description = e.content]
  ELSE IF e.name = <<"twitter:", "image">>
       THEN [p EXCEPT !.image = e.content]
  ELSE p

twitterEach(p, e) ==
  IF Falsy(e.name) \/ Falsy(e.content) THEN p
  ELSE IF e.name = <<"twitter:", "card">>
       THEN [p EXCEPT !.twitterCard = e.content]
  ELSE IF e.name = <<"twitter:", "title">> /\ Falsy(p.title)
       THEN [p EXCEPT !.title = e.content]
  ELSE IF e.name = <<"twitter:", "description">> /\ Falsy(p.description)
       THEN [p EXCEPT !.description = e.content]
  ELSE IF e.name = <<"twitter:", "image">> /\ Falsy(p.image)
       THEN [p EXCEPT !.image = e.content]
  ELSE p

RECURSIVE twitterScan(_, _)
twitterScan(p, s) ==
  IF s = <<>> THEN p ELSE twitterScan(twitterEach(p, Head(s)), Tail(s))

fallbackTitle(p, doc) ==
  IF Falsy(p.title)
  THEN [p EXCEPT !.title =
          OrUndefined(Trim(ConcatText(SelectSeq(doc.head, IsTitle))))]
  ELSE p

descriptionEach(p, e) ==
  IF ~Falsy(p.description) THEN p
  ELSE IF ~Falsy(e.content) THEN [p EXCEPT !.description = e.content]
  ELSE p

RECURSIVE descriptionScan(_, _)
descriptionScan(p, s) ==
  IF s = <<>> THEN p ELSE descriptionScan(descriptionEach(p, Head(s)), Tail(s))

fallbackDescription(p, doc) ==
  IF Falsy(p.description)
  THEN descriptionScan(p, SelectSeq(doc.head, IsDescriptionMeta))
  ELSE p

extractPreview(url, resp, doc) ==
  LET p0 == newPreview(url, resp, doc)
      p1 == ogScan(p0, SelectSeq(doc.head, IsOgMeta))
      p2 == twitterScan(p1, SelectSeq(doc.head, IsTwitterMeta))
      p3 == fallbackTitle(p2, doc)
  IN fallbackDescription(p3, doc)

-----------------------------------------------------------------------------
(* get_page_content: boilerplate removal, selection, normalisation, cut *)

Element(tag, text, kids) == [tag |-> tag, text |-> text, kids |-> kids]

Boilerplate(b) ==
  {"script", "style", "nav", "header", "footer", "iframe", "noscript",
   "aside"} \cup (IF b = "server.ts" THEN {"form", "button"} ELSE {})

RECURSIVE RemoveBoilerplate(_, _)
RemoveBoilerplate(els, b) ==
  IF els = <<>> THEN <<>>
  ELSE LET e == Head(els)
       IN (IF e.tag \in Boilerplate(b) THEN <<>>
           ELSE <<[e EXCEPT !.kids = RemoveBoilerplate(e.kids, b)]>>)
          \o RemoveBoilerplate(Tail(els), b)

RECURSIVE TextOf(_)
TextOf(els) ==
  IF els = <<>> THEN <<>>
  ELSE Head(els).text \o TextOf(Head(els).kids) \o TextOf(Tail(els))

RECURSIVE Select(_, _)
Select(els, tag) ==
  IF els = <<>> THEN <<>>
  ELSE (IF Head(els).tag = tag THEN <<Head(els)>> ELSE <<>>)
       \o Select(Head(els).kids, tag) \o Select(Tail(els), tag)

RECURSIVE SelectedText(_)
SelectedText(sel) ==
  IF sel = <<>> THEN <<>>
  ELSE Head(sel).text \o TextOf(Head(sel).kids) \o SelectedText(Tail(sel))

selectContent(body) ==
  LET article == SelectedText(Select(body, "article"))
      main == SelectedText(Select(body, "main"))
  IN IF article # <<>> THEN article
     ELSE IF main # <<>> THEN main
     ELSE TextOf(body)

normalize(content) == Trim(CollapseWhitespace(content))

maxLengthOf(maxLengthArg) == OrDefault(Number(maxLengthArg), DefaultMaxLength)

pageContent(doc, maxLengthArg, b) ==
  LET kept == RemoveBoilerplate(doc.body, b)
      content == normalize(selectContent(kept))
  IN SliceTo(content, maxLengthOf(maxLengthArg))

-----------------------------------------------------------------------------
(* searchWeb and the search_web branch *)

Block(href, title, snippet) ==
  [href |-> href, title |-> title, snippet |-> snippet]

resultEach(results, el) ==
  LET url == el.href
      title == Trim(el.title)
      snippet == Trim(el.snippet)
  IN IF ~Falsy(url) /\ ~Falsy(title)
     THEN Append(results, [title |-> title, url |-> url, snippet |-> snippet])
     ELSE results

RECURSIVE resultScan(_, _)
resultScan(results, s) ==
  IF s = <<>> THEN results
  ELSE resultScan(resultEach(results, Head(s)), Tail(s))

capResults(results) == SliceTo(results, SearchCap)

searchWeb(doc) == capResults(resultScan(<<>>, doc.blocks))

numResultsOf(numResultsArg) ==
  OrDefault(Number(numResultsArg), DefaultNumResults)

sliceResults(results, numResultsArg) ==
  SliceTo(results, numResultsOf(numResultsArg))

searchResults(doc, numResultsArg) ==
  sliceResults(searchWeb(doc), numResultsArg)

-----------------------------------------------------------------------------
(* Tool invocations: the state of one run of the CallTool handler *)

Invs == 1..NumInv

NoArgs ==
  [url |-> Undefined, query |-> Undefined,
   maxLength |-> ArgUndefined, numResults |-> ArgUndefined]

NoFetch ==
  [state |-> "none", timer |-> "none", aborted |-> FALSE, ok |-> FALSE,
   url |-> <<>>, timeoutMs |-> 0]

NoResponse == [ok |-> FALSE, ctype |-> Null]

NoResult == [status |-> "none", isError |-> FALSE, kind |-> "none", value |-> <<>>]

IdleInv ==
  [pc |-> "idle", name |-> "", args |-> NoArgs, fx |-> NoFetch,
   resp |-> NoResponse, text |-> "none",
   preview |-> newPreview(<<>>, NoResponse, EmptyDocument),
   result |-> NoResult]

Returned(kind, value) ==
  [status |-> "returned", isError |-> FALSE, kind |-> kind, value |-> value]

ErrorPayload(message) ==
  [status |-> "returned", isError |-> TRUE, kind |-> "error",
   value |-> [error |-> message]]

toolCatchRethrow(r, message) ==
  [r EXCEPT !.pc = "done",
            !.result = [NoResult EXCEPT !.status = "thrown",
                                        !.value = [error |-> message]]]

toolCatchNoFlag(r, message) ==
  [r EXCEPT !.pc = "done",
            !.result = [ErrorPayload(message) EXCEPT !.isError = FALSE]]

(* the catch block of the handler *)
toolCatch(r, message) ==
  [r EXCEPT !.pc = "done", !.result = ErrorPayload(message)]

(* fetchLinkPreview's last two statements, given getFavicon's value *)
finishPreview(r, favicon) ==
  LET p == [r.preview EXCEPT !.favicon = favicon]
  IN [r EXCEPT !.pc = "done", !.preview = p,
               !.result = Returned("preview", JsonObject(p))]

clearTimeout(t) == IF t = "armed" THEN "cleared" ELSE t

armTimeout(url, ms) ==
  [state |-> "inflight", timer |-> "armed", aborted |-> FALSE, ok |-> FALSE,
   url |-> url, timeoutMs |-> ms]

fetchReturned(fx, resp) ==
  [fx EXCEPT !.state = "returned", !.timer = clearTimeout(fx.timer),
             !.ok = resp.ok]

fetchThrewLeak(fx) == [fx EXCEPT !.state = "failed"]

fetchThrew(fx) ==
  [fx EXCEPT !.state = "failed", !.timer = clearTimeout(fx.timer)]

timerFired(fx) ==
  [fx EXCEPT !.timer = "fired", !.aborted = TRUE,
             !.state = IF @ = "inflight" THEN "aborting" ELSE @]

onFetchFailurePropagate(r, message) ==
  toolCatch([r EXCEPT !.fx = fetchThrew(r.fx)], message)

(* a rejected fetch: fetchWithTimeout rethrows; getFavicon swallows it, *)
(* every other caller lets it reach the handler's catch                 *)
onFetchFailure(r, message) ==
  LET r1 == [r EXCEPT !.fx = fetchThrew(r.fx)]
  IN IF r.pc = "probe" THEN finishPreview(r1, Undefined)
     ELSE toolCatch(r1, message)

(* a resolved fetch: getFavicon looks at response.ok, the other callers *)
(* go on to read the body                                               *)
onFetchResponse(r, resp) ==
  LET r1 == [r EXCEPT !.fx = fetchReturned(r.fx, resp)]
  IN IF r.pc = "probe"
     THEN finishPreview(r1, IF resp.ok THEN r.fx.url ELSE Undefined)
     ELSE [r1 EXCEPT !.pc = "text", !.resp = resp]

fetchWithTimeout(r, url, ms, pc) ==
  LET r1 == [r EXCEPT !.pc = pc, !.fx = armTimeout(url, ms)]
  IN IF IsAbsoluteUrl(url) THEN r1 ELSE onFetchFailure(r1, InvalidUrlError)

getFavicon(r) ==
  LET url == r.preview.url
  IN IF ~CanParseUrl(url) THEN finishPreview(r, Undefined)
     ELSE fetchWithTimeout(r, UrlOrigin(url) \o <<"/favicon.ico">>,
                           FaviconTimeoutMs, "probe")

encodeURIComponent(q) ==
  [k \in 1..Len(q) |-> IF q[k] = " " THEN "%20" ELSE q[k]]

searchUrl(query) ==
  <<"https://duckduckgo.com", "/html/?q=">> \o encodeURIComponent(query)
    \o <<"&kl=us-en">>

HasSearch(b) == b = "part_000"

(* the handler from its entry to its first await *)
callTool(r, b) ==
  IF r.name = "fetch_link_preview"
  THEN LET url == JsString(r.args.url)
       IN IF Falsy(url) THEN toolCatch(r, UrlRequired)
          ELSE fetchWithTimeout(r, url, PageTimeoutMs, "fetch")
  ELSE IF r.name = "search_web" /\ HasSearch(b)
  THEN fetchWithTimeout(r, searchUrl(JsString(r.args.query)),
                        SearchTimeoutMs, "fetch")
  ELSE IF r.name = "get_page_content"
  THEN fetchWithTimeout(r, JsString(r.args.url), PageTimeoutMs, "fetch")
  ELSE toolCatch(r, UnknownTool(r.name))

(* the handler from the body text to its next await or its return *)
afterText(r, doc, b) ==
  IF r.name = "fetch_link_preview"
  THEN getFavicon([r EXCEPT !.preview =
                     extractPreview(JsString(r.args.url), r.resp, doc)])
  ELSE IF r.name = "search_web"
  THEN [r EXCEPT !.pc = "done",
                 !.result = Returned("results",
                                     searchResults(doc, r.args.numResults))]
  ELSE [r EXCEPT !.pc = "done",
                 !.result = Returned("text",
                                     pageContent(doc, r.args.maxLength, b))]

-----------------------------------------------------------------------------
(* Actions of the handler and of its environment *)

PureIdle == stage = "off" /\ idx = 0 /\ input = <<>> /\ output = <<>>

CallTool(i, name, args) ==
  /\ inv[i].pc = "idle"
  /\ inv' = [inv EXCEPT ![i] =
               callTool([inv[i] EXCEPT !.name = name, !.args = args], build)]
  /\ UNCHANGED <<build, stage, idx, input, output>>

FetchResolve(i, resp) ==
  /\ inv[i].pc \in {"fetch", "probe"}
  /\ inv[i].fx.state = "inflight"
  /\ inv' = [inv EXCEPT ![i] = onFetchResponse(inv[i], resp)]
  /\ UNCHANGED <<build, stage, idx, input, output>>

FetchReject(i) ==
  /\ inv[i].pc \in {"fetch", "probe"}
  /\ inv[i].fx.state = "inflight"
  /\ inv' = [inv EXCEPT ![i] = onFetchFailure(inv[i], NetworkError)]
  /\ UNCHANGED <<build, stage, idx, input, output>>

TimerFireShared(i) ==
  /\ inv[i].fx.timer = "armed"
  /\ inv' = [j \in Invs |->
               IF j = i \/ inv[j].fx.state = "inflight"
               THEN [inv[j] EXCEPT !.fx = timerFired(inv[j].fx)]
               ELSE inv[j]]
  /\ UNCHANGED <<build, stage, idx, input, output>>

TimerFire(i) ==
  /\ inv[i].fx.timer = "armed"
  /\ inv' = [inv EXCEPT ![i].fx = timerFired(inv[i].fx)]
  /\ UNCHANGED <<build, stage, idx, input, output>>

AbortReject(i) ==
  /\ inv[i].fx.state = "aborting"
  /\ inv' = [inv EXCEPT ![i] = onFetchFailure(inv[i], AbortError)]
  /\ UNCHANGED <<build, stage, idx, input, output>>

TextResolve(i, doc) ==
  /\ inv[i].pc = "text"
  /\ inv' = [inv EXCEPT ![i] =
               afterText([inv[i] EXCEPT !.text = "read"], doc, build)]
  /\ UNCHANGED <<build, stage, idx, input, output>>

TextReject(i) ==
  /\ inv[i].pc = "text"
  /\ inv' = [inv EXCEPT ![i] =
               toolCatch([inv[i] EXCEPT !.text = "failed"], BodyError)]
  /\ UNCHANGED <<build, stage, idx, input, output>>

-----------------------------------------------------------------------------
(* Inputs of the handler specifications *)

ToolNames ==
  {"fetch_link_preview", "search_web", "get_page_content", "no_such_tool"}

UrlArgs ==
  {Undefined, <<>>, <<"http://a", "/p">>, <<"ftp://c", "/p">>, <<"not a url">>}

NumberArgs == {ArgUndefined} \cup {ArgNumber(k) : k \in 0..MaxArg}

ToolArgs(name) ==
  IF name = "fetch_link_preview"
  THEN {[NoArgs EXCEPT !.url = u] : u \in UrlArgs}
  ELSE IF name = "get_page_content"
  THEN {[NoArgs EXCEPT !.url = u, !.maxLength = m] :
          u \in UrlArgs, m \in NumberArgs}
  ELSE IF name = "search_web"
  THEN {[NoArgs EXCEPT !.query = q, !.numResults = n] :
          q \in {Undefined, <<"q", " ", "r">>}, n \in NumberArgs}
  ELSE {NoArgs}

Responses == [ok : BOOLEAN, ctype : {Null, <<"text/html">>}]

SampleHead ==
  <<TitleElement(<<" ", "T", " ">>), MetaTwitter("title", <<"W">>),
    MetaOg("title", <<"A">>), MetaOg("title", <<"B">>),
    MetaTwitter("card", <<"summary">>), MetaDescription(<<"D">>)>>

SampleBody ==
  <<Element("nav", <<"n">>, <<>>),
    Element("article", <<" ">>, <<Element("script", <<"s">>, <<>>)>>),
    Element("main", <<"m", " ", "\n", "x">>, <<>>)>>

SampleBlocks ==
  <<Block(<<"http://a", "/1">>, <<"t", "1">>, <<>>),
    Block(Undefined, <<"t", "2">>, <<"s">>),
    Block(<<"http://a", "/3">>, <<" ">>, <<"s">>),
    Block(<<"http://a", "/4">>, <<" ", "t", "4">>, <<"s", " ">>)>>

SamplePages ==
  {EmptyDocument,
   Document(<<"en">>, SampleHead, SampleBody, SampleBlocks),
   Document(Undefined, <<MetaTwitter("image", <<"I">>)>>,
            <<Element("div", <<"a", "b", "c">>, <<>>)>>, <<>>)}

InitHandler ==
  /\ build \in Builds
  /\ inv = [i \in Invs |-> IdleInv]
  /\ PureIdle

(* one invocation at a time, over the whole input range *)
Next ==
  \/ \E name \in ToolNames : \E args \in ToolArgs(name) : CallTool(1, name, args)
  \/ \E resp \in Responses : FetchResolve(1, resp)
  \/ FetchReject(1)
  \/ TimerFire(1)
  \/ AbortReject(1)
  \/ \E doc \in SamplePages : TextResolve(1, doc)
  \/ TextReject(1)

Spec == InitHandler /\ [][Next]_vars

(* interleaved invocations, over a reduced input range *)
ConcArgs(name) ==
  IF name = "no_such_tool" THEN {NoArgs}
  ELSE {[NoArgs EXCEPT !.url = <<"http://a", "/p">>, !.query = <<"q">>]}

ConcResponses == [ok : BOOLEAN, ctype : {<<"text/html">>}]

ConcPages == {Document(<<"en">>, SampleHead, SampleBody, SampleBlocks)}

NextConc ==
  \E i \in Invs :
    \/ \E name \in ToolNames : \E args \in ConcArgs(name) : CallTool(i, name, args)
    \/ \E resp \in ConcResponses : FetchResolve(i, resp)
    \/ FetchReject(i)
    \/ TimerFire(i)
    \/ AbortReject(i)
    \/ \E doc \in ConcPages : TextResolve(i, doc)
    \/ TextReject(i)

SpecConc == InitHandler /\ [][NextConc]_vars

-----------------------------------------------------------------------------
(* Properties of the handler *)

IsPageFetch(fx) == fx.state # "none" /\ fx.timeoutMs # FaviconTimeoutMs
IsProbe(fx) == fx.timeoutMs = FaviconTimeoutMs

FetchFailureMessage(fx) ==
  IF fx.aborted THEN AbortError
  ELSE IF ~IsAbsoluteUrl(fx.url) THEN InvalidUrlError
  ELSE NetworkError

(* the failure raised while handling r, Undefined when there is none *)
RaisedFailure(r) ==
  IF r.name \notin {"fetch_link_preview", "get_page_content"}
     /\ ~(r.name = "search_web" /\ HasSearch(build))
  THEN UnknownTool(r.name)
  ELSE IF r.name = "fetch_link_preview" /\ JsString(r.args.url) = <<>>
  THEN UrlRequired
  ELSE IF IsPageFetch(r.fx) /\ r.fx.state = "failed"
  THEN FetchFailureMessage(r.fx)
  ELSE IF r.text = "failed" THEN BodyError
  ELSE Undefined

ExpectedFavicon(r) ==
  IF r.fx.state = "returned" /\ r.fx.ok
  THEN UrlOrigin(JsString(r.args.url)) \o <<"/favicon.ico">>
  ELSE Undefined

ProbeOver(r) == IsProbe(r.fx) /\ r.fx.state \in {"returned", "failed"}

(* C2: whatever the outcome of the favicon probe (abort, network failure, *)
(* non-success status), fetch_link_preview still succeeds with the other  *)
(* extracted fields; the favicon field is absent unless the probe's       *)
(* response status is a success, and then it is {origin}/favicon.ico.     *)
C2_FaviconProbeNeverFails ==
  \A i \in Invs :
    LET r == inv[i]
    IN ProbeOver(r) =>
         /\ r.pc = "done"
         /\ r.result.status = "returned"
         /\ ~r.result.isError
         /\ r.result.kind = "preview"
         /\ r.result.value =
              JsonObject([r.preview EXCEPT !.favicon = ExpectedFavicon(r)])
         /\ ("favicon" \in DOMAIN r.result.value)
              <=> (r.fx.state = "returned" /\ r.fx.ok)

C2_Witness ==
  \E i \in Invs :
    /\ ProbeOver(inv[i])
    /\ inv[i].fx.state = "returned"
    /\ ~inv[i].fx.ok
    /\ inv[i].result.kind = "preview"
    /\ "favicon" \notin DOMAIN inv[i].result.value
    /\ "title" \in DOMAIN inv[i].result.value

(* C7: fetch_link_preview with the url argument empty or missing returns *)
(* the {error: message} payload with isError set, never a LinkPreview.   *)
C7_MissingUrlIsAnError ==
  \A i \in Invs :
    LET r == inv[i]
    IN (r.name = "fetch_link_preview" /\ r.args.url \in {Undefined, <<>>})
         => /\ r.pc = "done"
            /\ r.result.status = "returned"
            /\ r.result.isError
            /\ r.result.kind = "error"

C7_Witness ==
  \E i \in Invs :
    /\ inv[i].name = "fetch_link_preview"
    /\ inv[i].args.url = Undefined
    /\ inv[i].pc = "done"
    /\ inv[i].result.isError

(* C8: a fetchWithTimeout call has its timer armed from call time while  *)
(* the request is in flight; a call that has finished (returned or       *)
(* thrown) never leaves its timer armed; a timer that fires aborts the   *)
(* request and the call fails.                                           *)
C8_TimerAlwaysCleared ==
  \A i \in Invs :
    LET fx == inv[i].fx
    IN /\ fx.state = "inflight" => (fx.timer = "armed" /\ ~fx.aborted)
       /\ fx.state \in {"returned", "failed"} => fx.timer \in {"cleared", "fired"}
       /\ fx.timer = "fired" => (fx.aborted /\ fx.state \in {"aborting", "failed"})
       /\ fx.state = "returned" => ~fx.aborted
       /\ fx.state = "none" => fx.timer = "none"

C8_Witness ==
  \E i \in Invs :
    /\ inv[i].fx.state = "failed"
    /\ inv[i].fx.timer = "fired"
    /\ inv[i].fx.aborted
    /\ inv[i].pc = "done"

(* C9: with invocations interleaved, a step (a timer firing, a fetch      *)
(* failing or completing) of one invocation changes nothing of any other  *)
(* invocation: its fetch outcome, its timer, its result record.           *)
C9_CancellationIsScoped ==
  [][\A i \in Invs :
       inv'[i] # inv[i] => \A j \in Invs \ {i} : inv'[j] = inv[j]]_vars

C9_Witness ==
  \E i \in Invs : \E j \in Invs \ {i} :
    /\ inv[i].fx.state = "failed"
    /\ inv[i].fx.aborted
    /\ inv[i].result = ErrorPayload(AbortError)
    /\ inv[j].fx.state = "returned"
    /\ ~inv[j].fx.aborted
    /\ inv[j].pc = "done"
    /\ ~inv[j].result.isError

-----------------------------------------------------------------------------
(* The preview extraction on its own, one callback or rule per step *)

RECURSIVE SeqsUpTo(_, _)
SeqsUpTo(S, n) ==
  IF n = 0 THEN {<<>>}
  ELSE LET shorter == SeqsUpTo(S, n - 1)
       IN shorter \cup {Append(q, x) : q \in shorter, x \in S}

Contents == {<<>>, <<"A">>, <<"B">>}

OgProperties ==
  {"title", "description", "image", "site_name", "type", "url", "locale"}

TwitterNames == {"card", "title", "description", "image"}

HeadElements ==
  {MetaOg(p, c) : p \in OgProperties, c \in Contents}
    \cup {MetaTwitter(n, c) : n \in TwitterNames, c \in Contents}
    \cup {MetaDescription(c) : c \in Contents}
    \cup {TitleElement(t) : t \in {<<>>, <<" ">>, <<" ", "T", " ">>}}

PreviewUrl == <<"http://a", "/p">>

InitPreview ==
  /\ build = "server.ts"
  /\ inv = [i \in Invs |-> IdleInv]
  /\ \E head \in SeqsUpTo(HeadElements, MaxTags) :
       input = Document(Undefined, head, <<>>, <<>>)
  /\ stage = "og"
  /\ idx = 0
  /\ output = newPreview(PreviewUrl, NoResponse, input)

ScanList ==
  IF stage = "og" THEN SelectSeq(input.head, IsOgMeta)
  ELSE SelectSeq(input.head, IsTwitterMeta)

OgEach ==
  /\ stage = "og"
  /\ idx < Len(ScanList)
  /\ output' = ogEach(output, ScanList[idx + 1])
  /\ idx' = idx + 1
  /\ UNCHANGED <<build, inv, stage, input>>

TwitterEach ==
  /\ stage = "twitter"
  /\ idx < Len(ScanList)
  /\ output' = twitterEach(output, ScanList[idx + 1])
  /\ idx' = idx + 1
  /\ UNCHANGED <<build, inv, stage, input>>

EndEach ==
  /\ stage \in {"og", "twitter"}
  /\ idx = Len(ScanList)
  /\ stage' = (IF stage = "og" THEN "twitter" ELSE "title")
  /\ idx' = 0
  /\ UNCHANGED <<build, inv, input, output>>

FallbackTitle ==
  /\ stage = "title"
  /\ output' = fallbackTitle(output, input)
  /\ stage' = "description"
  /\ UNCHANGED <<build, inv, idx, input>>

FallbackDescription ==
  /\ stage = "description"
  /\ output' = fallbackDescription(output, input)
  /\ stage' = "previewed"
  /\ UNCHANGED <<build, inv, idx, input>>

NextPreview ==
  \/ OgEach
  \/ TwitterEach
  \/ EndEach
  \/ FallbackTitle
  \/ FallbackDescription

SpecPreview == InitPreview /\ [][NextPreview]_vars

(* the non-empty values the document's tags of one kind supply *)
OgValues(doc, p) ==
  {doc.head[k].content : k \in {k \in 1..Len(doc.head) :
     /\ IsOgMeta(doc.head[k])
     /\ doc.head[k].property = <<"og:", p>>
     /\ ~Falsy(doc.head[k].content)}}

TwitterValues(doc, n) ==
  {doc.head[k].content : k \in {k \in 1..Len(doc.head) :
     /\ IsTwitterMeta(doc.head[k])
     /\ doc.head[k].name = <<"twitter:", n>>
     /\ ~Falsy(doc.head[k].content)}}

DescriptionValues(doc) ==
  {doc.head[k].content : k \in {k \in 1..Len(doc.head) :
     /\ IsDescriptionMeta(doc.head[k])
     /\ ~Falsy(doc.head[k].content)}}

TitleText(doc) == Trim(ConcatText(SelectSeq(doc.head, IsTitle)))

FromPrecedence(v, og, tw, html) ==
  IF og # {} THEN v \in og
  ELSE IF tw # {} THEN v \in tw
  ELSE IF html # {} THEN v \in html
  ELSE v = Undefined

(* C3: title, description and image each come from the highest-precedence *)
(* source that supplies a non-empty value: OpenGraph, then Twitter Card,   *)
(* then the HTML fallback (<title> trimmed, meta description, none for     *)
(* image); with og:title and twitter:title both non-empty the title is an  *)
(* og:title value, whatever the order of the tags.                         *)
C3_SourcePrecedence ==
  stage = "previewed" =>
    /\ FromPrecedence(output.title, OgValues(input, "title"),
                      TwitterValues(input, "title"),
                      {TitleText(input)} \ {<<>>})
    /\ FromPrecedence(output.description, OgValues(input, "description"),
                      TwitterValues(input, "description"),
                      DescriptionValues(input))
    /\ FromPrecedence(output.image, OgValues(input, "image"),
                      TwitterValues(input, "image"), {})

C3_Witness ==
  /\ stage = "previewed"
  /\ input.head = <<MetaTwitter("title", <<"A">>), MetaOg("title", <<"B">>)>>
  /\ output.title = <<"B">>

OnceFields ==
  {"title", "description", "image", "siteName", "type", "urlCanonical",
   "twitterCard"}

(* C4: while a LinkPreview is built every field is assigned at most once: *)
(* once a field holds a non-empty value no later tag or rule changes it,  *)
(* so of several tags supplying a field the first in document order wins. *)
C4_FieldsAssignedOnce ==
  [][\A f \in OnceFields :
       ~Falsy(output[f]) => output'[f] = output[f]]_vars

-----------------------------------------------------------------------------
(* The content extraction on its own, one pipeline stage per step *)

Chars == {"a", " "}

Texts == SeqsUpTo(Chars, MaxText)

BodyTags == {"article", "main", "div", "script", "form"}

Kids == {<<>>, <<Element("script", <<"s">>, <<>>)>>}

BodyElements ==
  {Element(tag, text, kids) : tag \in BodyTags, text \in Texts, kids \in Kids}

LengthArgs == {ArgUndefined} \cup {ArgNumber(k) : k \in -1..MaxArg}

InitContent ==
  /\ build \in Builds
  /\ inv = [i \in Invs |-> IdleInv]
  /\ \E body \in SeqsUpTo(BodyElements, MaxElems) : \E m \in LengthArgs :
       input = [doc |-> Document(Undefined, <<>>, body, <<>>), maxLength |-> m]
  /\ stage = "remove"
  /\ idx = 0
  /\ output = input.doc.body

RemoveStep ==
  /\ stage = "remove"
  /\ output' = RemoveBoilerplate(output, build)
  /\ stage' = "select"
  /\ UNCHANGED <<build, inv, idx, input>>

SelectStep ==
  /\ stage = "select"
  /\ output' = selectContent(output)
  /\ stage' = "normalize"
  /\ UNCHANGED <<build, inv, idx, input>>

NormalizeStep ==
  /\ stage = "normalize"
  /\ output' = normalize(output)
  /\ stage' = "truncate"
  /\ UNCHANGED <<build, inv, idx, input>>

TruncateStep ==
  /\ stage = "truncate"
  /\ output' = SliceTo(output, maxLengthOf(input.maxLength))
  /\ stage' = "extracted"
  /\ UNCHANGED <<build, inv, idx, input>>

NextContent ==
  \/ RemoveStep
  \/ SelectStep
  \/ NormalizeStep
  \/ TruncateStep

SpecContent == InitContent /\ [][NextContent]_vars

(* C5: for every caller-supplied maxLength L >= 0, L = 0 included, the *)
(* text get_page_content returns has length <= L.                      *)
C5_LengthAtMostMaxLength ==
  (stage = "extracted" /\ input.maxLength.t = "number"
     /\ input.maxLength.n >= 0)
    => Len(output) <= input.maxLength.n

ReadableText(els, tag) == normalize(SelectedText(Select(els, tag)))

FirstReadable(els) ==
  IF ReadableText(els, "article") # <<>> THEN ReadableText(els, "article")
  ELSE IF ReadableText(els, "main") # <<>> THEN ReadableText(els, "main")
  ELSE normalize(TextOf(els))

(* C10: after the boilerplate is removed the text is that of the first of *)
(* <article>, <main>, <body> that yields non-empty text; an <article>     *)
(* that is absent or holds only whitespace gives way to the next element. *)
C10_FirstNonEmptyContainer ==
  stage = "extracted" =>
    output = SliceTo(FirstReadable(RemoveBoilerplate(input.doc.body, build)),
                     maxLengthOf(input.maxLength))

-----------------------------------------------------------------------------
(* The search extraction on its own: the block loop and the two slices *)

BlockUrl(k) == <<"http://a", "/r", ToString(k)>>

(* a results page of n blocks; block h, if any, lacks its link (kind 1) *)
(* or its title text (kind 2); even blocks carry no snippet             *)
ResultsPage(n, h, kind) ==
  [k \in 1..n |->
     Block(IF k = h /\ kind = 1 THEN Undefined ELSE BlockUrl(k),
           IF k = h /\ kind = 2 THEN <<" ">> ELSE <<"t", ToString(k)>>,
           IF k % 2 = 0 THEN <<>> ELSE <<"s", " ">>)]

ResultsPages ==
  {ResultsPage(n, h, kind) : n \in 0..MaxBlocks, h \in 0..MaxBlocks,
                             kind \in {1, 2}}

CountArgs ==
  {ArgUndefined} \cup {ArgNumber(k) : k \in 0..MaxArg}
    \cup {ArgNumber(k) : k \in (SearchCap - 1)..(SearchCap + 1)}

InitSearch ==
  /\ build = "part_000"
  /\ inv = [i \in Invs |-> IdleInv]
  /\ \E blocks \in ResultsPages : \E n \in CountArgs :
       input = [doc |-> Document(Undefined, <<>>, <<>>, blocks),
                numResults |-> n]
  /\ stage = "each"
  /\ idx = 0
  /\ output = <<>>

ResultEach ==
  /\ stage = "each"
  /\ idx < Len(input.doc.blocks)
  /\ output' = resultEach(output, input.doc.blocks[idx + 1])
  /\ idx' = idx + 1
  /\ UNCHANGED <<build, inv, stage, input>>

CapResults ==
  /\ stage = "each"
  /\ idx = Len(input.doc.blocks)
  /\ output' = capResults(output)
  /\ stage' = "slice"
  /\ UNCHANGED <<build, inv, idx, input>>

SliceResults ==
  /\ stage = "slice"
  /\ output' = sliceResults(output, input.numResults)
  /\ stage' = "searched"
  /\ UNCHANGED <<build, inv, idx, input>>

NextSearch ==
  \/ ResultEach
  \/ CapResults
  \/ SliceResults

SpecSearch == InitSearch /\ [][NextSearch]_vars

IsValidBlock(b) == ~Falsy(b.href) /\ Trim(b.title) # <<>>

ValidResults(blocks) ==
  LET valid == SelectSeq(blocks, IsValidBlock)
  IN [k \in 1..Len(valid) |->
        [title |-> Trim(valid[k].title), url |-> valid[k].href,
         snippet |-> Trim(valid[k].snippet)]]

RequestedCount(arg) == IF arg.t = "undefined" THEN DefaultNumResults ELSE arg.n

(* C6: search_web returns the valid blocks of the results page (a link    *)
(* and non-empty trimmed title) in document order, cut to numResults      *)
(* (10 when not supplied): exactly the first min(numResults, V) of the V  *)
(* valid blocks, for every numResults >= 1.                               *)
C6_FirstNumResultsValidBlocks ==
  (stage = "searched" /\ RequestedCount(input.numResults) >= 1)
    => LET valid == ValidResults(input.doc.blocks)
       IN output = SubSeq(valid, 1,
                          Min(RequestedCount(input.numResults), Len(valid)))

====
